---- MODULE Spec2Model ----
(***************************************************************************)
(* A model of src/src/TypeChecker.ts: the runtime half of the checker      *)
(* algebra (primitive checkers, combinators, cast).                        *)
(*                                                                         *)
(* JavaScript values are records [kind, val]; a checker is a syntax tree   *)
(* that Call evaluates as the closure the constructor returns would run.   *)
(* A call ends in one of three ways: it returns true, it returns false, or *)
(* it throws.                                                              *)
(***************************************************************************)
EXTENDS Integers, Sequences, FiniteSets, TLC

VARIABLES
    call,        \* the library call a client makes: constructor, arguments, value
    out,         \* what that call did: its result and the calls it made
    mapping,     \* the object passed to getMappedChecker (the closure keeps a reference)
    enumType,    \* the object passed to getEnumChecker
    mappedBuilt, \* getMappedChecker(mapping) has returned its checker
    values,      \* the `values` array captured by getEnumChecker's closure
    enumBuilt,   \* getEnumChecker(enumType) has returned its checker
    last         \* the last invocation of a built checker and its verdict

vars == <<call, out, mapping, enumType, mappedBuilt, values, enumBuilt, last>>

----------------------------------------------------------------------------
(* Bounds of the model *)

\* longest list of checkers handed to getUnionOf / getIntersectionOf
MaxCheckers == 2
\* longest array among the values under test
MaxArrayLen == 2

----------------------------------------------------------------------------
(* JavaScript values *)

Undefined == [kind |-> "undefined", val |-> "undefined"]
Null      == [kind |-> "null", val |-> "null"]
Bool(b)   == [kind |-> "boolean", val |-> b]
Num(n)    == [kind |-> "number", val |-> n]
Str(s)    == [kind |-> "string", val |-> s]
BigInt(n) == [kind |-> "bigint", val |-> n]
Sym(d)    == [kind |-> "symbol", val |-> d]
\* a function value; val is what calling it does: returns a truthy value,
\* returns a falsy value, or throws
Fn(does)  == [kind |-> "function", val |-> does]
\* an object: own enumerable string-keyed properties in Object.keys order,
\* each [k, x]; isArray marks an Array (its keys are then "0", "1", ...)
Obj(own)  == [kind |-> "object", val |-> [isArray |-> FALSE, own |-> own]]
Arr(own)  == [kind |-> "object", val |-> [isArray |-> TRUE, own |-> own]]
\* as a property value: a reference to the object that holds the property
SelfRef   == [kind |-> "ref", val |-> "self"]

Prop(k, x) == [k |-> k, x |-> x]

Primitives ==
    { Undefined, Null, Bool("true"), Bool("false"),
      Num("0"), Num("1"), Num("NaN"), Str("Red"), Str("x"),
      BigInt("10"), Sym("s") }

Functions == { Fn("truthy"), Fn("falsy"), Fn("throws") }

ObjKeys == { "a", "b" }
PropValues == { Undefined, Num("1"), Str("x"), BigInt("10"), SelfRef }
ElemValues == { Undefined, Num("1"), Str("x") }

\* sequences without repetition of the key
DistinctKeys(own) == \A i, j \in DOMAIN own : own[i].k = own[j].k => i = j

PropLists ==
    { own \in UNION { [1..n -> { Prop(k, x) : k \in ObjKeys, x \in PropValues }]
                      : n \in 0..Cardinality(ObjKeys) } : DistinctKeys(own) }

IndexKey(i) == CASE i = 1 -> "0" [] i = 2 -> "1" [] i = 3 -> "2" [] OTHER -> "3"

ElemLists ==
    UNION { { [i \in 1..n |-> Prop(IndexKey(i), xs[i])] : xs \in [1..n -> ElemValues] }
            : n \in 0..MaxArrayLen }

Objects == { Obj(own) : own \in PropLists } \cup { Arr(own) : own \in ElemLists }

Values == Primitives \cup Functions \cup Objects

\* the typeof operator
TypeOf(v) == IF v.kind = "null" THEN "object" ELSE v.kind

\* v[k]: an own property, else what the prototype chain gives, else undefined
OwnKeys(v) == IF v.kind = "object" THEN { v.val.own[i].k : i \in DOMAIN v.val.own } ELSE {}

Get(v, k) ==
    IF k \in OwnKeys(v)
    THEN LET i == CHOOSE i \in DOMAIN v.val.own : v.val.own[i].k = k
             x == v.val.own[i].x
         IN IF x = SelfRef THEN v ELSE x
    ELSE IF k = "toString" /\ v.kind \notin { "undefined", "null" }
    THEN Fn("truthy")
    ELSE Undefined

\* the own enumerable string-keyed properties of v
Own(v) == IF v.kind = "object" THEN v.val.own ELSE <<>>

\* Object.keys(v) and Object.values(v)
ObjectKeys(v)   == [i \in DOMAIN Own(v) |-> Str(Own(v)[i].k)]
ObjectValues(v) == [i \in DOMAIN Own(v) |-> Get(v, Own(v)[i].k)]

\* a === b (objects, functions and symbols are told apart by what they hold)
StrictEquals(a, b) == a = b /\ a # Num("NaN")

\* the comparison of Array.prototype.includes
SameValueZero(a, b) == a = b

----------------------------------------------------------------------------
(* Checkers.  A checker is the closure a constructor returned, written as   *)
(* a record of the constructor's name and the variables the closure holds. *)

Prim(name)              == [op |-> "prim", name |-> name]
Union(checkers)         == [op |-> "getUnionOf", checkers |-> checkers]
Intersection(checkers)  == [op |-> "getIntersectionOf", checkers |-> checkers]
ArrayOf(checker)        == [op |-> "getArrayChecker", checker |-> checker]
Mapped(m)               == [op |-> "getMappedChecker", mapping |-> m]
RecordOf(kc, vc)        == [op |-> "getRecordChecker", keyChecker |-> kc, valueChecker |-> vc]
Literal(expected)       == [op |-> "getLiteralChecker", expected |-> expected]
EnumOf(vals)            == [op |-> "getEnumChecker", values |-> vals]
InstanceOf(cls)         == [op |-> "getInstanceChecker", cls |-> cls]
Nullable(checker)       == [op |-> "nullable", checker |-> checker]

\* an entry of the object handed to getMappedChecker, in for-in order
Entry(k, c) == [k |-> k, c |-> c]

\* how a call ends
Results == { "true", "false", "throw" }
FromBool(b) == IF b THEN "true" ELSE "false"

\* one call made by a closure: fn is what was called, arg what it was given
Made(fn, arg) == [fn |-> fn, arg |-> arg]
Run(res, calls) == [res |-> res, calls |-> calls]

(* primitive checkers *)
isNever(val)   == FALSE
isAny(val)     == TRUE
isBigint(v)    == TypeOf(v) = "bigint"
isBoolean(v)   == TypeOf(v) = "boolean"
isFunction(v)  == TypeOf(v) = "function"
isNull(v)      == v = Null
isNumber(v)    == TypeOf(v) = "number"
isObject_noNullTest(v) == TypeOf(v) = "object"
isObject(v)    == TypeOf(v) = "object" /\ v # Null
isString(v)    == TypeOf(v) = "string"
isSymbol(v)    == TypeOf(v) = "symbol"
isUndefined(v) == v = Undefined

KindCheckers ==
    { "isBigint", "isBoolean", "isFunction", "isNull", "isNumber",
      "isObject", "isString", "isSymbol", "isUndefined" }
PrimNames == KindCheckers \cup { "isNever", "isAny" }

CallPrim(name, v) ==
    CASE name = "isNever"     -> isNever(v)
      [] name = "isAny"       -> isAny(v)
      [] name = "isBigint"    -> isBigint(v)
      [] name = "isBoolean"   -> isBoolean(v)
      [] name = "isFunction"  -> isFunction(v)
      [] name = "isNull"      -> isNull(v)
      [] name = "isNumber"    -> isNumber(v)
      [] name = "isObject"    -> isObject(v)
      [] name = "isString"    -> isString(v)
      [] name = "isSymbol"    -> isSymbol(v)
      [] name = "isUndefined" -> isUndefined(v)

\* the first position of rs that does not hold `cont`, 0 when there is none:
\* where a loop that goes on while it sees `cont` stops
StopAt(rs, cont) ==
    IF \E i \in DOMAIN rs : rs[i] # cont
    THEN CHOOSE i \in DOMAIN rs : rs[i] # cont /\ \A j \in 1..(i - 1) : rs[j] = cont
    ELSE 0

\* Array.prototype.every over the results of its callback, and the number of
\* elements the callback was called on
Every(rs) == LET s == StopAt(rs, "true") IN IF s = 0 THEN "true" ELSE rs[s]
EveryCalled(rs) == LET s == StopAt(rs, "true") IN IF s = 0 THEN Len(rs) ELSE s

\* v(c): calling the value v as a function
Apply(v, c) ==
    IF v.kind # "function" THEN "throw"
    ELSE CASE v.val = "truthy" -> "true"
           [] v.val = "falsy"  -> "false"
           [] OTHER            -> "throw"

\* v instanceof cls, for the built-in classes
Classes == { "Object", "Array", "Function" }
InstanceTest(v, cls) ==
    CASE cls = "Object"   -> v.kind \in { "object", "function" }
      [] cls = "Array"    -> v.kind = "object" /\ v.val.isArray
      [] cls = "Function" -> v.kind = "function"

RECURSIVE Call(_, _)

\* the closure of getUnionOf
getUnionOf(checkers, v) ==
    LET rs == [i \in DOMAIN checkers |-> Call(checkers[i], v)]
        s  == StopAt(rs, "false")
        n  == IF s = 0 THEN Len(checkers) ELSE s
    IN Run(IF s = 0 THEN "false" ELSE rs[s],
           [i \in 1..n |-> Made(checkers[i], v)])

\* the closure of getIntersectionOf: checkers.every(c => v(c))
getIntersectionOf(checkers, v) ==
    LET rs == [i \in DOMAIN checkers |-> Apply(v, checkers[i])]
    IN Run(Every(rs), [i \in 1..EveryCalled(rs) |-> Made(v, checkers[i])])

\* the closure of getArrayChecker
getArrayChecker(checker, v) ==
    IF ~(v.kind = "object" /\ v.val.isArray) THEN Run("false", <<>>)
    ELSE LET xs == ObjectValues(v)
             rs == [i \in DOMAIN xs |-> Call(checker, xs[i])]
         IN Run(Every(rs), [i \in 1..EveryCalled(rs) |-> Made(checker, xs[i])])

\* the for-in loop of getMappedChecker's closure over the entries m of `mapping`
getMappedChecker_anyKey(m, v) ==
    IF ~isObject(v) THEN Run("false", <<>>)
    ELSE LET rs == [i \in DOMAIN m |-> Call(m[i].c, Get(v, m[i].k))]
             s  == StopAt(rs, "false")
             n  == IF s = 0 THEN Len(m) ELSE s
         IN Run(IF s = 0 THEN "false" ELSE rs[s],
                [i \in 1..n |-> Made(m[i].c, Get(v, m[i].k))])
getMappedChecker(m, v) ==
    IF ~isObject(v) THEN Run("false", <<>>)
    ELSE LET rs == [i \in DOMAIN m |-> Call(m[i].c, Get(v, m[i].k))]
         IN Run(Every(rs),
                [i \in 1..EveryCalled(rs) |-> Made(m[i].c, Get(v, m[i].k))])

\* the closure of getRecordChecker
getRecordChecker_keysOnly(keyChecker, valueChecker, v) ==
    IF ~isObject(v) THEN Run("false", <<>>)
    ELSE LET ks == ObjectKeys(v)
             kr == [i \in DOMAIN ks |-> Call(keyChecker, ks[i])]
         IN Run(Every(kr), [i \in 1..EveryCalled(kr) |-> Made(keyChecker, ks[i])])
getRecordChecker(keyChecker, valueChecker, v) ==
    IF ~isObject(v) THEN Run("false", <<>>)
    ELSE LET ks == ObjectKeys(v)
             xs == ObjectValues(v)
             kr == [i \in DOMAIN ks |-> Call(keyChecker, ks[i])]
             xr == [i \in DOMAIN xs |-> Call(valueChecker, xs[i])]
             kcalls == [i \in 1..EveryCalled(kr) |-> Made(keyChecker, ks[i])]
             xcalls == [i \in 1..EveryCalled(xr) |-> Made(valueChecker, xs[i])]
         IN IF Every(kr) # "true" THEN Run(Every(kr), kcalls)
            ELSE Run(Every(xr), kcalls \o xcalls)

\* the closure of getLiteralChecker
getLiteralChecker(expected, v) == Run(FromBool(StrictEquals(v, expected)), <<>>)

\* values.includes(v)
Includes(vals, v) == \E i \in DOMAIN vals : SameValueZero(vals[i], v)

\* the closure of getEnumChecker, over the `values` it captured
enumChecker(vals, v) == Run(FromBool(Includes(vals, v)), <<>>)

\* the closure of getInstanceChecker
getInstanceChecker(cls, v) == Run(FromBool(InstanceTest(v, cls)), <<>>)

\* the closure of nullable
nullable(checker, v) ==
    IF v = Null THEN Run("true", <<>>)
    ELSE Run(Call(checker, v), <<Made(checker, v)>>)

\* what calling checker c on v does, and the calls c itself makes
Invoke(c, v) ==
    CASE c.op = "prim"               -> Run(FromBool(CallPrim(c.name, v)), <<>>)
      [] c.op = "getUnionOf"         -> getUnionOf(c.checkers, v)
      [] c.op = "getIntersectionOf"  -> getIntersectionOf(c.checkers, v)
      [] c.op = "getArrayChecker"    -> getArrayChecker(c.checker, v)
      [] c.op = "getMappedChecker"   -> getMappedChecker(c.mapping, v)
      [] c.op = "getRecordChecker"   -> getRecordChecker(c.keyChecker, c.valueChecker, v)
      [] c.op = "getLiteralChecker"  -> getLiteralChecker(c.expected, v)
      [] c.op = "getEnumChecker"     -> enumChecker(c.values, v)
      [] c.op = "getInstanceChecker" -> getInstanceChecker(c.cls, v)
      [] c.op = "nullable"           -> nullable(c.checker, v)

Call(c, v) == Invoke(c, v).res

----------------------------------------------------------------------------
(* cast *)

\* the optional parameter expectedTypeName
NoName   == [given |-> FALSE, text |-> ""]
Name(t)  == [given |-> TRUE, text |-> t]
\* the truthiness test `expectedTypeName ? ... : ...`
Truthy(name) == name.given /\ name.text # ""

RECURSIVE JoinComma(_)
JoinComma(parts) ==
    IF parts = <<>> THEN ""
    ELSE IF Len(parts) = 1 THEN parts[1]
    ELSE parts[1] \o "," \o JoinComma(Tail(parts))

\* JSON.stringify of a value without properties of its own
JsonAtom(x) ==
    CASE x.kind = "null"    -> "null"
      [] x.kind = "boolean" -> x.val
      [] x.kind = "number"  -> IF x.val = "NaN" THEN "null" ELSE x.val
      [] x.kind = "string"  -> "\"" \o x.val \o "\""
      [] OTHER              -> "undefined"

\* values JSON.stringify gives no text for (undefined as the result)
JsonSkips(x)  == x.kind \in { "undefined", "function", "symbol" }
\* values JSON.stringify throws a TypeError on
JsonThrows(x) == x.kind \in { "bigint", "ref" }
JsonError(x) ==
    IF x.kind = "bigint" THEN "Do not know how to serialize a BigInt"
    ELSE "Converting circular structure to JSON"

\* JSON.stringify(v) inside a template literal: the text, or the TypeError thrown
JSONstringify(v) ==
    IF v.kind # "object"
    THEN IF JsonThrows(v) THEN [threw |-> TRUE, text |-> JsonError(v)]
         ELSE [threw |-> FALSE, text |-> JsonAtom(v)]
    ELSE LET own == v.val.own
             bad == StopAt([i \in DOMAIN own |-> JsonThrows(own[i].x)], FALSE)
             kept == SelectSeq(own, LAMBDA p : ~JsonSkips(p.x))
         IN IF bad # 0 THEN [threw |-> TRUE, text |-> JsonError(own[bad].x)]
            ELSE IF v.val.isArray
            THEN [threw |-> FALSE,
                  text |-> "[" \o JoinComma([i \in DOMAIN own |->
                              IF JsonSkips(own[i].x) THEN "null" ELSE JsonAtom(own[i].x)])
                           \o "]"]
            ELSE [threw |-> FALSE,
                  text |-> "{" \o JoinComma([i \in DOMAIN kept |->
                              "\"" \o kept[i].k \o "\":" \o JsonAtom(kept[i].x)])
                           \o "}"]

Returned(v)      == [end |-> "return", by |-> "cast", value |-> v, message |-> ""]
Thrown(by, text) == [end |-> "throw", by |-> by, value |-> Undefined, message |-> text]

\* the function cast(checker, expectedTypeName) returns, applied to v
cast(checker, expectedTypeName, v) ==
    LET r  == Call(checker, v)
        js == JSONstringify(v)
    IN CASE r = "throw" -> Thrown("checker", "")
         [] r = "true"  -> Returned(v)
         [] r = "false" ->
              IF js.threw THEN Thrown("JSON.stringify", js.text)
              ELSE IF Truthy(expectedTypeName)
              THEN Thrown("cast", "value " \o js.text \o " is not of type "
                                   \o expectedTypeName.text)
              ELSE Thrown("cast", "value " \o js.text \o " is of an invalid type")

----------------------------------------------------------------------------
(* getEnumChecker *)

Digits == { "0", "1", "2", "3", "4", "5", "6", "7", "8", "9" }

\* the end of the longest run of digits of s that starts at position i
RECURSIVE DigitsEnd(_, _)
DigitsEnd(s, i) == IF i <= Len(s) /\ s[i] \in Digits THEN DigitsEnd(s, i + 1) ELSE i

At(s, i, ch) == i <= Len(s) /\ s[i] = ch

\* NUMBER_REGEX.test(s), s a sequence of characters:
\* /^-?[0-9]+(\.[0-9]+)?(e-?[0-9]+)?$/
NUMBER_REGEX_noAnchor(s) == Len(s) >= 1 /\ \E i \in DOMAIN s : s[i] \in Digits
NUMBER_REGEX(s) ==
    LET i0 == IF At(s, 1, "-") THEN 2 ELSE 1
        i1 == DigitsEnd(s, i0)
        i2 == IF At(s, i1, ".") /\ DigitsEnd(s, i1 + 1) > i1 + 1
              THEN DigitsEnd(s, i1 + 1) ELSE i1
        j  == IF At(s, i2 + 1, "-") THEN i2 + 2 ELSE i2 + 1
        i3 == IF At(s, i2, "e") /\ DigitsEnd(s, j) > j THEN DigitsEnd(s, j) ELSE i2
    IN i1 > i0 /\ i3 = Len(s) + 1

\* an entry of an enum object: key (a sequence of characters) and value
Member(key, x) == [key |-> key, x |-> x]

\* the `values` array getEnumChecker(enumType) computes before it returns
getEnumChecker(e) ==
    LET kept == SelectSeq(e, LAMBDA m : ~NUMBER_REGEX(m.key))
    IN [i \in DOMAIN kept |-> kept[i].x]

----------------------------------------------------------------------------
(* The calls a client makes: a constructor, its arguments, and the value    *)
(* the checker it returns is applied to.                                    *)

\* longest mapping handed to getMappedChecker
MaxMapKeys == 2
\* most entries of an enum object
MaxEnumKeys == 2

\* the checkers combinators are built from; the intersection is one whose
\* call ends in a throw on every value that is not a function
Constituents ==
    { Prim("isNever"), Prim("isAny"), Prim("isNumber"), Prim("isString"),
      Prim("isObject"), Prim("isUndefined"),
      Intersection(<<Prim("isNumber")>>),
      Mapped(<<Entry("a", Prim("isNumber"))>>) }

CheckerLists == UNION { [1..n -> Constituents] : n \in 0..MaxCheckers }

MapKeys == ObjKeys \cup { "toString" }
MapCheckers ==
    { Prim("isNumber"), Prim("isString"), Prim("isUndefined"),
      Intersection(<<Prim("isNumber")>>) }
Mappings ==
    { m \in UNION { [1..n -> { Entry(k, c) : k \in MapKeys, c \in MapCheckers }]
                    : n \in 0..MaxMapKeys } : DistinctKeys(m) }

LiteralValues == { Num("0"), Num("NaN"), Str("x"), Bool("true"), BigInt("10") }

EnumKeys ==
    { <<"R", "e", "d">>, <<"0">>, <<"-", "1">>, <<"1", ".", "5">>,
      <<"1", "e", "+", "2", "1">>, <<"1", "e", "5">>, <<"N", "a", "N">> }
EnumValues == { Num("0"), Num("NaN"), Str("Red") }
DistinctMembers(e) == \A i, j \in DOMAIN e : e[i].key = e[j].key => i = j
Enums ==
    { e \in UNION { [1..n -> { Member(k, x) : k \in EnumKeys, x \in EnumValues }]
                    : n \in 0..MaxEnumKeys } : DistinctMembers(e) }

Names == { NoName, Name(""), Name("number") }

\* the values an enum checker is applied to
EnumProbes == Primitives \cup { Fn("truthy"), Obj(<<>>) }

\* call is one of the calls a client can make
IsCall(c) ==
    \/ \E n \in PrimNames, v \in Values : c = [op |-> "prim", name |-> n, v |-> v]
    \/ \E cs \in CheckerLists, v \in Values :
          c = [op |-> "getUnionOf", checkers |-> cs, v |-> v]
    \/ \E cs \in CheckerLists, v \in Values :
          c = [op |-> "getIntersectionOf", checkers |-> cs, v |-> v]
    \/ \E k \in Constituents, v \in Values :
          c = [op |-> "getArrayChecker", checker |-> k, v |-> v]
    \/ \E m \in Mappings, v \in Values :
          c = [op |-> "getMappedChecker", mapping |-> m, v |-> v]
    \/ \E kc \in Constituents, vc \in Constituents, v \in Values :
          c = [op |-> "getRecordChecker", keyChecker |-> kc, valueChecker |-> vc, v |-> v]
    \/ \E x \in LiteralValues, v \in Values :
          c = [op |-> "getLiteralChecker", expected |-> x, v |-> v]
    \/ \E e \in Enums, v \in EnumProbes :
          c = [op |-> "getEnumChecker", enumType |-> e, v |-> v]
    \/ \E k \in Classes, v \in Values :
          c = [op |-> "getInstanceChecker", cls |-> k, v |-> v]
    \/ \E k \in Constituents, v \in Values :
          c = [op |-> "nullable", checker |-> k, v |-> v]
    \/ \E k \in Constituents, n \in Names, v \in Values :
          c = [op |-> "cast", checker |-> k, expectedTypeName |-> n, v |-> v]

Idle   == [op |-> "none"]
NoCall == [op |-> "none"]
Heap0  == /\ mapping = <<>>
          /\ enumType = <<>>
          /\ mappedBuilt = FALSE
          /\ enumBuilt = FALSE
          /\ values = <<>>
          /\ last = Idle

heap == <<mapping, enumType, mappedBuilt, values, enumBuilt, last>>

Init ==
    /\ IsCall(call)
    /\ out = Idle
    /\ Heap0

\* the outcome of a checker call, with the call it answers
Outcome(run) == [op |-> call.op, res |-> run.res, calls |-> run.calls]

Pending(op) == call.op = op /\ out = Idle

CallPrimitive ==
    /\ Pending("prim")
    /\ out' = Outcome(Invoke(Prim(call.name), call.v))
    /\ UNCHANGED <<call, heap>>

CallUnion ==
    /\ Pending("getUnionOf")
    /\ out' = Outcome(Invoke(Union(call.checkers), call.v))
    /\ UNCHANGED <<call, heap>>

CallIntersection ==
    /\ Pending("getIntersectionOf")
    /\ out' = Outcome(Invoke(Intersection(call.checkers), call.v))
    /\ UNCHANGED <<call, heap>>

CallArray ==
    /\ Pending("getArrayChecker")
    /\ out' = Outcome(Invoke(ArrayOf(call.checker), call.v))
    /\ UNCHANGED <<call, heap>>

CallMapped ==
    /\ Pending("getMappedChecker")
    /\ out' = Outcome(Invoke(Mapped(call.mapping), call.v))
    /\ UNCHANGED <<call, heap>>

CallRecord ==
    /\ Pending("getRecordChecker")
    /\ out' = Outcome(Invoke(RecordOf(call.keyChecker, call.valueChecker), call.v))
    /\ UNCHANGED <<call, heap>>

CallLiteral ==
    /\ Pending("getLiteralChecker")
    /\ out' = Outcome(Invoke(Literal(call.expected), call.v))
    /\ UNCHANGED <<call, heap>>

CallEnum ==
    /\ Pending("getEnumChecker")
    /\ out' = Outcome(Invoke(EnumOf(getEnumChecker(call.enumType)), call.v))
    /\ UNCHANGED <<call, heap>>

CallInstance ==
    /\ Pending("getInstanceChecker")
    /\ out' = Outcome(Invoke(InstanceOf(call.cls), call.v))
    /\ UNCHANGED <<call, heap>>

CallNullable ==
    /\ Pending("nullable")
    /\ out' = Outcome(Invoke(Nullable(call.checker), call.v))
    /\ UNCHANGED <<call, heap>>

CallCast ==
    /\ Pending("cast")
    /\ out' = [op |-> "cast"] @@ cast(call.checker, call.expectedTypeName, call.v)
    /\ UNCHANGED <<call, heap>>

Next ==
    \/ CallPrimitive
    \/ CallUnion
    \/ CallIntersection
    \/ CallArray
    \/ CallMapped
    \/ CallRecord
    \/ CallLiteral
    \/ CallEnum
    \/ CallInstance
    \/ CallNullable
    \/ CallCast

Spec == Init /\ [][Next]_vars

----------------------------------------------------------------------------
(* Properties of a single call (specification Spec) *)

Done(op) == call.op = op /\ out # Idle
Accepts(c, v) == Call(c, v) = "true"

\* C1: getIntersectionOf(c1..cn)(v) is true exactly when every ci(v) is true
\* and false otherwise; each ci is applied to v, never v to ci; with n = 0
\* the result is true.
C1_IntersectionIsConjunction ==
    Done("getIntersectionOf") =>
        /\ out.res = FromBool(\A i \in DOMAIN call.checkers :
                                  Accepts(call.checkers[i], call.v))
        /\ \A i \in DOMAIN out.calls : out.calls[i] = Made(call.checkers[i], call.v)
        /\ (call.checkers = <<>> => out.res = "true")

\* C2: every checker is total: applied to any value it ends with true or
\* false and never raises; only the function cast returns raises.
C2_CheckersAreTotal ==
    (out # Idle /\ call.op # "cast") => out.res \in Results \ { "throw" }

\* C3: cast(c, n)(v) returns v itself when c accepts v; when c rejects v it
\* raises, with the message "value <JSON of v> is not of type <n>" whenever a
\* name was supplied (the empty string included) and "value <JSON of v> is of
\* an invalid type" only when none was.
C3_CastContract ==
    Done("cast") =>
        LET r  == Call(call.checker, call.v)
            js == JSONstringify(call.v)
            n  == call.expectedTypeName
        IN /\ r = "true" => out.end = "return" /\ out.value = call.v
           /\ r = "false" =>
                /\ out.end = "throw"
                /\ ~js.threw =>
                     out.message =
                        IF n.given
                        THEN "value " \o js.text \o " is not of type " \o n.text
                        ELSE "value " \o js.text \o " is of an invalid type"

\* C4: when c rejects a value that JSON cannot serialize, building the
\* message does not itself fail: the error raised is cast's own type error.
C4_CastRendersUnserializable ==
    ( /\ Done("cast")
      /\ Call(call.checker, call.v) = "false"
      /\ JSONstringify(call.v).threw )
    => out.end = "throw" /\ out.by = "cast"

\* k in v: an own property of v, or one Object.prototype gives every object
HasProperty(v, k) == k \in OwnKeys(v) \/ k = "toString"
Declared(m) == { m[i].k : i \in DOMAIN m }

NumericLooking ==
    { <<"0">>, <<"-", "1">>, <<"1", ".", "5">>, <<"1", "e", "5">> }

\* C6 as stated: getEnumChecker(E)(v) is true exactly when v strictly equals
\* E[k] for some key k of E that is not numeric-looking.
C6_EnumStrictEquality ==
    Done("getEnumChecker") =>
        ( (out.res = "true") <=>
            \E i \in DOMAIN call.enumType :
                /\ call.enumType[i].key \notin NumericLooking
                /\ call.v = call.enumType[i].x /\ call.v # Num("NaN") )

\* C6, amended: getEnumChecker(E)(v) is true exactly when v is the same value
\* (strictly equal, or NaN beside NaN) as E[k] for some key k of E that is
\* not numeric-looking; a verdict is always true or false.
C6_EnumMembership ==
    Done("getEnumChecker") =>
        /\ out.res \in { "true", "false" }
        /\ (out.res = "true") <=>
              \E i \in DOMAIN call.enumType :
                  /\ call.enumType[i].key \notin NumericLooking
                  /\ call.v = call.enumType[i].x

C6_Witness ==
    /\ Done("getEnumChecker")
    /\ call.enumType = <<Member(<<"0">>, Str("Red")), Member(<<"R", "e", "d">>, Num("0"))>>
    /\ call.v = Str("Red")
    /\ out.res = "false"

\* C7: getRecordChecker(kc, vc)(v) is true exactly when v is object-kind, not
\* null, kc accepts every own enumerable key of v and vc every own enumerable
\* property value; an object without own keys passes; a non-object fails.
C7_RecordChecker ==
    Done("getRecordChecker") =>
        LET v == call.v
        IN /\ (out.res = "true") <=>
                  /\ TypeOf(v) = "object" /\ v # Null
                  /\ \A k \in OwnKeys(v) :
                        /\ Accepts(call.keyChecker, Str(k))
                        /\ Accepts(call.valueChecker, Get(v, k))
           /\ (v \in Objects /\ OwnKeys(v) = {}) => out.res = "true"
           /\ v \notin Objects => out.res = "false"

C7_Witness ==
    /\ Done("getRecordChecker")
    /\ call.keyChecker = Prim("isString")
    /\ call.valueChecker = Prim("isNumber")
    /\ call.v = Obj(<<Prop("a", Num("1")), Prop("b", Str("x"))>>)
    /\ out.res = "false"

\* C8: getUnionOf(c1..cn)(v) is true exactly when at least one ci(v) is true;
\* the checkers are consulted left to right and none after the first
\* accepting one is called; with n = 0 the result is false.
C8_UnionIsDisjunction ==
    Done("getUnionOf") =>
        LET cs == call.checkers
        IN /\ (out.res = "true") <=> \E i \in DOMAIN cs : Accepts(cs[i], call.v)
           /\ \A i \in DOMAIN out.calls :
                  /\ out.calls[i] = Made(cs[i], call.v)
                  /\ \A j \in 1..(i - 1) : ~Accepts(cs[j], call.v)
           /\ (cs = <<>> => out.res = "false")

\* the kind checker of each kind of value
CheckerOfKind(kind) ==
    CASE kind = "bigint"    -> "isBigint"
      [] kind = "boolean"   -> "isBoolean"
      [] kind = "function"  -> "isFunction"
      [] kind = "null"      -> "isNull"
      [] kind = "number"    -> "isNumber"
      [] kind = "object"    -> "isObject"
      [] kind = "string"    -> "isString"
      [] kind = "symbol"    -> "isSymbol"
      [] kind = "undefined" -> "isUndefined"

\* C9: the nine kind checkers are mutually exclusive: each accepts the values
\* of its own kind and no other, so no value is accepted by two of them
\* (isObject rejects null); isNever rejects and isAny accepts every value.
C9_KindCheckersExclusive ==
    Done("prim") =>
        /\ call.name \in KindCheckers =>
              /\ (out.res = "true") <=> (call.name = CheckerOfKind(call.v.kind))
              /\ out.res = "true" =>
                    \A n \in KindCheckers \ { call.name } : ~CallPrim(n, call.v)
        /\ call.name = "isNever" => out.res = "false"
        /\ call.name = "isAny" => out.res = "true"

C9_Witness ==
    /\ Done("prim")
    /\ call.name = "isObject"
    /\ call.v = Null
    /\ out.res = "false"

----------------------------------------------------------------------------
(* The life of a checker (specification SpecLife): a client holds a mapping *)
(* object and an enum object, has checkers built from them, changes the     *)
(* objects and invokes the checkers.                                        *)

LifeCheckers   == { Prim("isNumber"), Prim("isString") }
LifeEnumKeys   == { <<"R", "e", "d">>, <<"0">> }
LifeEnumValues == { Num("0"), Str("Red") }
LifeValues     == { Obj(<<Prop("a", Num("1"))>>), Obj(<<>>), Num("0"), Str("Red") }

LifeMappings ==
    { m \in UNION { [1..n -> { Entry(k, c) : k \in ObjKeys, c \in LifeCheckers }]
                    : n \in 0..Cardinality(ObjKeys) } : DistinctKeys(m) }
LifeEnums ==
    { e \in UNION { [1..n -> { Member(k, x) : k \in LifeEnumKeys, x \in LifeEnumValues }]
                    : n \in 0..Cardinality(LifeEnumKeys) } : DistinctMembers(e) }

\* obj[k] = c: an existing key keeps its place, a new one goes last
PutEntry(m, k, c) ==
    IF \E i \in DOMAIN m : m[i].k = k
    THEN [i \in DOMAIN m |-> IF m[i].k = k THEN Entry(k, c) ELSE m[i]]
    ELSE Append(m, Entry(k, c))
PutMember(e, key, x) ==
    IF \E i \in DOMAIN e : e[i].key = key
    THEN [i \in DOMAIN e |-> IF e[i].key = key THEN Member(key, x) ELSE e[i]]
    ELSE Append(e, Member(key, x))

InitLife ==
    /\ call = NoCall
    /\ out = Idle
    /\ mapping \in LifeMappings
    /\ enumType \in LifeEnums
    /\ mappedBuilt = FALSE
    /\ enumBuilt = FALSE
    /\ values = <<>>
    /\ last = Idle

\* getMappedChecker(mapping) returns: the closure holds the object itself
BuildMapped ==
    /\ ~mappedBuilt
    /\ mappedBuilt' = TRUE
    /\ UNCHANGED <<call, out, mapping, enumType, values, enumBuilt, last>>

\* getEnumChecker(enumType) returns: the closure holds the array `values`
BuildEnum ==
    /\ ~enumBuilt
    /\ values' = getEnumChecker(enumType)
    /\ enumBuilt' = TRUE
    /\ UNCHANGED <<call, out, mapping, enumType, mappedBuilt, last>>

\* the client adds or replaces an entry of the mapping object
SetMappingEntry ==
    /\ \E k \in ObjKeys, c \in LifeCheckers : mapping' = PutEntry(mapping, k, c)
    /\ UNCHANGED <<call, out, enumType, mappedBuilt, values, enumBuilt, last>>

\* the client deletes an entry of the mapping object
DeleteMappingEntry ==
    /\ \E i \in DOMAIN mapping :
          mapping' = SelectSeq(mapping, LAMBDA e : e.k # mapping[i].k)
    /\ UNCHANGED <<call, out, enumType, mappedBuilt, values, enumBuilt, last>>

\* the client adds or replaces a member of the enum object
SetEnumMember ==
    /\ \E k \in LifeEnumKeys, x \in LifeEnumValues : enumType' = PutMember(enumType, k, x)
    /\ UNCHANGED <<call, out, mapping, mappedBuilt, values, enumBuilt, last>>

\* the client deletes a member of the enum object
DeleteEnumMember ==
    /\ \E i \in DOMAIN enumType :
          enumType' = SelectSeq(enumType, LAMBDA m : m.key # enumType[i].key)
    /\ UNCHANGED <<call, out, mapping, mappedBuilt, values, enumBuilt, last>>

\* the mapped checker is invoked: its for-in loop reads the object as it is now
InvokeMapped ==
    /\ mappedBuilt
    /\ \E v \in LifeValues :
          last' = [op |-> "getMappedChecker", v |-> v,
                   res |-> getMappedChecker(mapping, v).res]
    /\ UNCHANGED <<call, out, mapping, enumType, mappedBuilt, values, enumBuilt>>

\* the enum checker is invoked: it reads the array it captured
InvokeEnum ==
    /\ enumBuilt
    /\ \E v \in LifeValues :
          last' = [op |-> "getEnumChecker", v |-> v, res |-> enumChecker(values, v).res]
    /\ UNCHANGED <<call, out, mapping, enumType, mappedBuilt, values, enumBuilt>>

NextLife ==
    \/ BuildMapped
    \/ BuildEnum
    \/ SetMappingEntry
    \/ DeleteMappingEntry
    \/ SetEnumMember
    \/ DeleteEnumMember
    \/ InvokeMapped
    \/ InvokeEnum

SpecLife == InitLife /\ [][NextLife]_vars

\* C10: once getMappedChecker(M) or getEnumChecker(E) has returned, no later
\* operation (an invocation, or a change of an entry of M or E) changes the
\* checker's verdict on any value; an invocation changes neither M nor E.
C10_CheckersImmutable ==
    [][ /\ mappedBuilt =>
              \A v \in LifeValues :
                  getMappedChecker(mapping', v).res = getMappedChecker(mapping, v).res
        /\ enumBuilt =>
              \A v \in LifeValues :
                  enumChecker(values', v).res = enumChecker(values, v).res
        /\ last' # last => mapping' = mapping /\ enumType' = enumType ]_vars

====
